---- MODULE Spec2Model ----
(***************************************************************************)
(* cxxstreams: the terminal operations and chaining operations of          *)
(* Stream<T, S, IMPL> (include/cxxstreams/stream.hpp) over a pull-based    *)
(* chain of streamables.                                                   *)
(*                                                                         *)
(* A stream is a nested record: every stage holds its upstream by value    *)
(* in the field `up` (the member _streamable of the source), down to a     *)
(* source adapter.  An optional<T> is a sequence of length 0 or 1.         *)
(***************************************************************************)
EXTENDS Integers, Sequences, FiniteSets, TLC

VARIABLES
    container,  \* the caller's container the cursor-pair source views
    T,          \* the element type: which ordering operators it provides
    stream,     \* the pipeline object the caller currently holds
    last        \* the last call made on the pipeline and what it returned

vars == <<container, T, stream, last>>

\* ------------------------------------------------------------- bounds

MaxLen == 2
MaxStages == 2
MaxLimit == 2

\* Element values of the enumerated containers.
Values == {0, 1, 2}

\* The container of the specification's concrete scenario.
Example == <<5, 3, 8, 1>>

RECURSIVE SeqsUpTo(_)
SeqsUpTo(n) ==
    IF n = 0 THEN {<<>>}
    ELSE LET shorter == SeqsUpTo(n - 1)
         IN  shorter \cup {Append(s, v) : s \in {x \in shorter : Len(x) = n - 1}, v \in Values}

Containers == SeqsUpTo(MaxLen) \cup {Example}

\* Predicates, transforms and combine functions a caller may pass.
Preds == {"odd", "gt1"}
Mappers == {"twice"}
Combiners == {"add", "sub"}

Test(p, x) ==
    IF p = "odd" THEN x % 2 = 1 ELSE x > 1

Transform(m, x) ==
    IF m = "twice" THEN x * 2 ELSE x

Invoke(f, a, b) ==
    IF f = "add" THEN a + b ELSE a - b

\* ----------------------------------------------------------- optional

Empty == <<>>

Some(v) == <<v>>

\* ------------------------------------------------------ element type T

\* T provides operator< (has_lth), operator> (has_gth) or both; both compare
\* the key x \div T.unit, so that with unit 2 distinct elements can compare
\* equal (a type ordered by one of its fields).
Key(x) == x \div T.unit

Lth(a, b) == Key(a) < Key(b)

Gth(a, b) == Key(a) > Key(b)

Provides(op) ==
    (op = "<" /\ T.has_lth) \/ (op = ">" /\ T.has_gth)

IntType == [has_lth |-> TRUE, has_gth |-> TRUE, unit |-> 1]

Types ==
    {t \in [has_lth : BOOLEAN, has_gth : BOOLEAN, unit : {1, 2}] :
        t.has_lth \/ t.has_gth}

\* ------------------------------------------------ streamables: pull-next

IteratorStreamable(c) ==
    [kind |-> "iterator", begin |-> 1, end |-> Len(c) + 1]

SingletStreamable(v) ==
    [kind |-> "singlet", value |-> v]

BasicStream(s) ==
    [kind |-> "basic", up |-> s]

iterator_next(s) ==
    IF s.begin = s.end
    THEN [out |-> Empty, self |-> s]
    ELSE [out |-> Some(container[s.begin]), self |-> [s EXCEPT !.begin = @ + 1]]

singlet_next(s) ==
    [out |-> s.value, self |-> [s EXCEPT !.value = Empty]]

RECURSIVE next(_)
next(s) ==
    CASE s.kind = "iterator" -> iterator_next(s)
      [] s.kind = "singlet" -> singlet_next(s)
      [] s.kind = "basic" ->
            LET u == next(s.up)
            IN  [out |-> u.out, self |-> [s EXCEPT !.up = u.self]]
      [] s.kind = "map" ->
            LET u == next(s.up)
            IN  [out |-> IF u.out = Empty THEN Empty
                         ELSE Some(Transform(s.mapper, u.out[1])),
                 self |-> [s EXCEPT !.up = u.self]]
      [] s.kind = "limit" ->
            IF s.count = s.max_count
            THEN [out |-> Empty, self |-> s]
            ELSE LET u == next(s.up)
                 IN  IF u.out = Empty
                     THEN [out |-> Empty, self |-> [s EXCEPT !.up = u.self]]
                     ELSE [out |-> u.out,
                           self |-> [s EXCEPT !.up = u.self, !.count = @ + 1]]
      [] s.kind = "filter" ->
            LET u == next(s.up)
                t == [s EXCEPT !.up = u.self]
            IN  IF u.out = Empty THEN [out |-> Empty, self |-> t]
                ELSE IF Test(s.filter, u.out[1]) THEN [out |-> u.out, self |-> t]
                ELSE next(t)

RECURSIVE Depth(_)
Depth(s) ==
    IF s.kind \in {"iterator", "singlet"} THEN 0
    ELSE IF s.kind = "basic" THEN Depth(s.up)
    ELSE 1 + Depth(s.up)

\* ------------------------------------------------- chaining operations

make_stream(c) == BasicStream(IteratorStreamable(c))

filter(s, p) ==
    [kind |-> "filter", filter |-> p, up |-> s]

map(s, m) ==
    [kind |-> "map", mapper |-> m, up |-> s]

\* limit with the cap one too large.
limit_off_by_one(s, n) ==
    [kind |-> "limit", max_count |-> n + 1, count |-> 0, up |-> s]

limit(s, n) ==
    [kind |-> "limit", max_count |-> n, count |-> 0, up |-> s]

\* ------------------------------------------------- terminal operations
\* Each returns [result, self, pulled, calls, built]: the value returned, the
\* stream as the call leaves it, the optionals self.next() returned in order,
\* the number of applications of the caller's function, and whether the
\* instantiation for T builds.

Returned(r, s, p, n) ==
    [result |-> r, self |-> s, pulled |-> p, calls |-> n, built |-> TRUE]

\* find_first working on a copy of the stream: the pull is not kept.
find_first_on_copy(s) ==
    LET e == next(s)
    IN  Returned(e.out, s, <<e.out>>, 0)

find_first(s) ==
    LET e == next(s)
    IN  Returned(e.out, e.self, <<e.out>>, 0)

\* The combine function called with its arguments exchanged.
reduce_step_swapped(f, acc, value) == Invoke(f, value, acc)

reduce_step(f, acc, value) == Invoke(f, acc, value)

RECURSIVE reduce_loop(_, _, _, _, _)
reduce_loop(f, acc, nxt, pulled, calls) ==
    IF nxt.out # Empty
    THEN reduce_loop(f, reduce_step(f, acc, nxt.out[1]), next(nxt.self),
                     Append(pulled, nxt.out), calls + 1)
    ELSE Returned(Some(acc), nxt.self, Append(pulled, nxt.out), calls)

\* reduce without its check of the first element: a default T is folded.
reduce_unchecked(s, f) ==
    LET element == next(s)
    IN  reduce_loop(f, IF element.out = Empty THEN 0 ELSE element.out[1],
                    IF element.out = Empty THEN element ELSE next(element.self),
                    IF element.out = Empty THEN <<>> ELSE <<element.out>>, 0)

reduce(s, f) ==
    LET element == next(s)
    IN  IF element.out = Empty
        THEN Returned(Empty, element.self, <<element.out>>, 0)
        ELSE reduce_loop(f, element.out[1], next(element.self), <<element.out>>, 0)

\* sum folding with the wrong operator.
sum_minus(s) == reduce(s, "sub")

sum(s) == reduce(s, "add")

\* The operator the branch selected by `if constexpr (has_lth<T>)` names.
min_operator == IF T.has_lth THEN "<" ELSE ">"

max_operator == IF T.has_lth THEN ">" ELSE "<"

min_step(result, value) ==
    IF T.has_lth
    THEN (IF Lth(value, result) THEN value ELSE result)
    ELSE (IF ~Gth(value, result) THEN value ELSE result)

max_step(result, value) ==
    IF T.has_lth
    THEN (IF Gth(value, result) THEN value ELSE result)
    ELSE (IF ~Lth(value, result) THEN value ELSE result)

\* A call whose selected branch names an operator T lacks does not build.
Rejected(s) ==
    [result |-> Empty, self |-> s, pulled |-> <<>>, calls |-> 0, built |-> FALSE]

RECURSIVE min_loop(_, _, _)
min_loop(result, element, pulled) ==
    IF element.out # Empty
    THEN min_loop(min_step(result, element.out[1]), next(element.self),
                  Append(pulled, element.out))
    ELSE Returned(Some(result), element.self, Append(pulled, element.out), 0)

min(s) ==
    IF ~Provides(min_operator) THEN Rejected(s)
    ELSE LET element == next(s)
         IN  IF element.out = Empty
             THEN Returned(Empty, element.self, <<element.out>>, 0)
             ELSE min_loop(element.out[1], next(element.self), <<element.out>>)

RECURSIVE max_loop(_, _, _)
max_loop(result, element, pulled) ==
    IF element.out # Empty
    THEN max_loop(max_step(result, element.out[1]), next(element.self),
                  Append(pulled, element.out))
    ELSE Returned(Some(result), element.self, Append(pulled, element.out), 0)

max(s) ==
    IF ~Provides(max_operator) THEN Rejected(s)
    ELSE LET element == next(s)
         IN  IF element.out = Empty
             THEN Returned(Empty, element.self, <<element.out>>, 0)
             ELSE max_loop(element.out[1], next(element.self), <<element.out>>)

count_step(result) == result + 1

RECURSIVE count_loop(_, _, _)
count_loop(result, element, pulled) ==
    IF element.out # Empty
    THEN count_loop(count_step(result), next(element.self), Append(pulled, element.out))
    ELSE Returned(result, element.self, Append(pulled, element.out), 0)

\* count with `if` in place of `while`.
count_once(s) ==
    LET element == next(s)
    IN  Returned(IF element.out = Empty THEN 0 ELSE 1, element.self, <<element.out>>, 0)

\* count as a do-while loop: the increment runs before the first test.
count_do_while(s) == count_loop(1, next(s), <<>>)

count(s) == count_loop(0, next(s), <<>>)

\* result += element, or result.push_back(element): both insert at the end.
\* Insertion at the front of the result.
collect_insert_front(result, value) == <<value>> \o result

collect_insert(result, value) == Append(result, value)

RECURSIVE collect_loop(_, _, _)
collect_loop(result, element, pulled) ==
    IF element.out # Empty
    THEN collect_loop(collect_insert(result, element.out[1]), next(element.self),
                      Append(pulled, element.out))
    ELSE Returned(result, element.self, Append(pulled, element.out), 0)

collect(s) == collect_loop(<<>>, next(s), <<>>)

\* ------------------------------------------------------------- actions

\* No call made yet on the pipeline object s (op "none": as constructed;
\* op "chain": as returned by a chaining operation).
Idle(op, s) ==
    [op |-> op, arg |-> "", before |-> s, result |-> Empty, pulled |-> <<>>,
     calls |-> 0, built |-> TRUE, after_end |-> FALSE]

\* Some pull-next of the call l, or of a call before it, returned empty.
Ended(l) ==
    l.after_end \/ \E i \in 1..Len(l.pulled) : l.pulled[i] = Empty

\* A call `op` on the pipeline that returned r.
Call(op, arg, r) ==
    /\ stream' = r.self
    /\ last' = [op |-> op, arg |-> arg, before |-> stream, result |-> r.result,
                pulled |-> r.pulled, calls |-> r.calls, built |-> r.built,
                after_end |-> Ended(last)]
    /\ UNCHANGED <<container, T>>

\* A chaining operation moves the pipeline into a new outermost stage.
Chain(s) ==
    /\ Depth(stream) < MaxStages
    /\ stream' = s
    /\ last' = Idle("chain", s)
    /\ UNCHANGED <<container, T>>

Filter == \E p \in Preds : Chain(filter(stream, p))

Map == \E m \in Mappers : Chain(map(stream, m))

Limit == \E n \in 0..MaxLimit : Chain(limit(stream, n))

PullNext ==
    LET e == next(stream)
    IN  Call("next", "", Returned(e.out, e.self, <<e.out>>, 0))

FindFirst == Call("find_first", "", find_first(stream))

Reduce == \E f \in Combiners : Call("reduce", f, reduce(stream, f))

Sum == Call("sum", "", sum(stream))

Min == Call("min", "", min(stream))

Max == Call("max", "", max(stream))

Count == Call("count", "", count(stream))

Collect == Call("collect", "", collect(stream))

\* A pipeline over a container of ints, or over a single optional value.
Init ==
    /\ T = IntType
    /\ \/ /\ container \in Containers
          /\ stream = make_stream(container)
       \/ /\ container = <<>>
          /\ \E v \in {Empty} \cup {Some(x) : x \in Values} :
                stream = BasicStream(SingletStreamable(v))
    /\ last = Idle("none", stream)

Next ==
    \/ Filter
    \/ Map
    \/ Limit
    \/ PullNext
    \/ FindFirst
    \/ Reduce
    \/ Sum
    \/ Min
    \/ Max
    \/ Count
    \/ Collect

Spec == Init /\ [][Next]_vars

\* Pipelines over element types with one or both ordering operators.
InitOrd ==
    /\ T \in Types
    /\ container \in Containers
    /\ stream = make_stream(container)
    /\ last = Idle("none", stream)

NextOrd ==
    \/ PullNext
    \/ Min
    \/ Max

SpecOrd == InitOrd /\ [][NextOrd]_vars

\* ---------------------------------------------------------- properties

Terminals == {"find_first", "reduce", "sum", "min", "max", "count", "collect"}

\* The elements among the optionals a call pulled, in pull order.
Yielded(pulled) ==
    LET some == SelectSeq(pulled, LAMBDA o : o # Empty)
    IN  [i \in 1..Len(some) |-> some[i][1]]

Smaller(a, b) == IF a < b THEN a ELSE b

RECURSIVE FoldLeft(_, _)
FoldLeft(f, S) ==
    IF Len(S) = 1 THEN S[1]
    ELSE Invoke(f, FoldLeft(f, SubSeq(S, 1, Len(S) - 1)), S[Len(S)])

RECURSIVE Total(_)
Total(S) ==
    IF S = <<>> THEN 0 ELSE S[1] + Total(Tail(S))

\* C1: reduce(f) returns empty when nothing is pulled, and otherwise the left
\* fold of the pulled sequence S seeded with its first element, f being applied
\* Len(S) - 1 times with the accumulator first: f(f(a,b),c) for S = [a,b,c].
\* On a fresh make_stream(container), S is the container.
C1_ReduceIsLeftFold ==
    last.op = "reduce" =>
        LET S == Yielded(last.pulled)
            f == last.arg
        IN  /\ last.before = make_stream(container) => S = container
            /\ S = <<>> => last.result = Empty /\ last.calls = 0
            /\ S # <<>> =>
                /\ last.result = Some(FoldLeft(f, S))
                /\ last.calls = Len(S) - 1
            /\ Len(S) = 3 =>
                last.result = Some(Invoke(f, Invoke(f, S[1], S[2]), S[3]))

C1_Witness ==
    /\ last.op = "reduce"
    /\ last.arg = "sub"
    /\ container = Example
    /\ last.before = make_stream(Example)
    /\ last.result = Some(-7)
    /\ last.calls = 3

\* The earliest pulled element that no pulled element beats under `better`.
EarliestBest(S, better(_, _)) ==
    LET best == {i \in 1..Len(S) : \A j \in 1..Len(S) : ~better(S[j], S[i])}
    IN  S[CHOOSE i \in best : \A j \in best : i <= j]

\* C2: in min and max an element equal to the running result never replaces
\* it, in the direct branch and in the inverted fallback branch alike: on ties
\* the earliest pulled element is the one returned.
C2_TiesKeepEarliest ==
    (last.op \in {"min", "max"} /\ last.built /\ Yielded(last.pulled) # <<>>) =>
        LET S == Yielded(last.pulled)
        IN  last.result =
                Some(IF last.op = "min" THEN EarliestBest(S, Lth)
                     ELSE EarliestBest(S, Gth))

\* C3 as stated: after every terminal operation, find_first included, a
\* further pull-next on the chain returns empty.
C3_EveryTerminalExhausts ==
    last.op \in Terminals => next(stream).out = Empty

\* C3 as amended: reduce, sum, min, max, count and collect pull until the chain
\* reports empty and leave it exhausted; find_first pulls exactly once, and on
\* a fresh make_stream(container) the next pull yields the second element.
C3_TerminalsButFindFirstExhaust ==
    /\ last.op \in Terminals \ {"find_first"} =>
        /\ last.pulled # <<>>
        /\ last.pulled[Len(last.pulled)] = Empty
        /\ next(stream).out = Empty
    /\ last.op = "find_first" =>
        /\ Len(last.pulled) = 1
        /\ (last.before = make_stream(container) /\ Len(container) >= 2) =>
                next(stream).out = Some(container[2])

C3_Witness ==
    /\ last.op = "count"
    /\ last.before = make_stream(container)
    /\ Len(container) >= 2
    /\ last.result = Len(container)
    /\ next(stream).out = Empty

\* What a call returns when it pulled no element.
ReturnsEmpty(l) ==
    IF l.op = "count" THEN l.result = 0 ELSE l.result = <<>>

\* C4: once a pull-next on the outermost stage has returned empty, every later
\* pull-next on that chain, direct or made by a terminal operation, returns
\* empty, and the terminal operation returns its empty result.
C4_MonotonicExhaustion ==
    last.after_end =>
        /\ \A i \in 1..Len(last.pulled) : last.pulled[i] = Empty
        /\ ReturnsEmpty(last)

C4_Witness ==
    /\ last.after_end
    /\ last.op = "reduce"
    /\ container = Example
    /\ last.before.kind = "filter"
    /\ last.before.up.kind = "limit"
    /\ last.pulled = <<Empty>>
    /\ last.result = Empty

\* C5: on a fresh make_stream(container), limit(n).count() is
\* min(n, Len(container)) and the limit stage yields exactly the first
\* min(n, Len(container)) elements of the container, in order.
C5_LimitCount ==
    \A n \in 0..MaxLimit :
        (last.before = limit(make_stream(container), n)
            /\ last.op \in {"count", "collect"}) =>
            LET k == Smaller(n, Len(container))
            IN  /\ Yielded(last.pulled) = SubSeq(container, 1, k)
                /\ last.op = "count" => last.result = k
                /\ last.op = "collect" => last.result = SubSeq(container, 1, k)

C5_Witness ==
    /\ last.op = "count"
    /\ container = Example
    /\ last.before = limit(make_stream(Example), 2)
    /\ last.result = 2
    /\ Yielded(last.pulled) = <<5, 3>>

\* C6: on a fresh make_stream(container), filter(P).count() is the number of
\* elements of the container that satisfy P, the yielded elements are those
\* elements in their original order, and every element a filter stage yields
\* satisfies its predicate.
C6_FilterCount ==
    /\ \A p \in Preds :
        (last.before = filter(make_stream(container), p)
            /\ last.op \in {"count", "collect"}) =>
            /\ Yielded(last.pulled) = SelectSeq(container, LAMBDA x : Test(p, x))
            /\ last.op = "count" =>
                last.result = Cardinality({i \in 1..Len(container) : Test(p, container[i])})
    /\ (last.op \in Terminals \cup {"next"} /\ last.before.kind = "filter") =>
            \A i \in 1..Len(Yielded(last.pulled)) :
                Test(last.before.filter, Yielded(last.pulled)[i])

C6_Witness ==
    /\ last.op = "count"
    /\ container = Example
    /\ last.before = filter(make_stream(Example), "odd")
    /\ last.result = 3
    /\ Yielded(last.pulled) = <<5, 3, 1>>

\* C7: collect on a fresh make_stream(container) returns the elements of the
\* container, as many and in the original order, and the call leaves the
\* container unchanged.
C7_CollectRoundTrip ==
    [][(last'.op = "collect" /\ last'.before = make_stream(container)) =>
            /\ last'.result = container
            /\ container' = container]_vars

C7_Witness ==
    /\ last.op = "collect"
    /\ container = Example
    /\ last.before = make_stream(Example)
    /\ last.result = Example

\* C8: sum, min and max return empty when nothing is pulled and the element
\* when one element is pulled; otherwise sum returns the sum of the pulled
\* elements, min the least and max the greatest of them.
C8_SumMinMax ==
    last.op \in {"sum", "min", "max"} =>
        LET S == Yielded(last.pulled)
        IN  /\ last.built
            /\ last.before = make_stream(container) => S = container
            /\ S = <<>> => last.result = Empty
            /\ Len(S) = 1 => last.result = Some(S[1])
            /\ (S # <<>> /\ last.op = "sum") => last.result = Some(Total(S))
            /\ (S # <<>> /\ last.op = "min") =>
                \E i \in 1..Len(S) :
                    /\ last.result = Some(S[i])
                    /\ \A j \in 1..Len(S) : S[i] <= S[j]
            /\ (S # <<>> /\ last.op = "max") =>
                \E i \in 1..Len(S) :
                    /\ last.result = Some(S[i])
                    /\ \A j \in 1..Len(S) : S[i] >= S[j]

C8_Witness ==
    /\ last.op = "sum"
    /\ container = Example
    /\ last.before = make_stream(Example)
    /\ last.result = Some(17)

\* C9: find_first returns the first element the chain yields, or empty when
\* the chain is exhausted; on a single-value adapter it returns the held value
\* and clears it, so that every later find_first returns empty.
C9_FindFirst ==
    last.op = "find_first" =>
        /\ (last.before.kind = "basic" /\ last.before.up.kind = "iterator") =>
            last.result =
                IF last.before.up.begin = last.before.up.end THEN Empty
                ELSE Some(container[last.before.up.begin])
        /\ (last.before.kind = "basic" /\ last.before.up.kind = "singlet") =>
            /\ last.result = last.before.up.value
            /\ stream = BasicStream(SingletStreamable(Empty))
            /\ find_first(stream).result = Empty

C9_Witness ==
    /\ last.op = "find_first"
    /\ last.before = BasicStream(SingletStreamable(Some(2)))
    /\ last.result = Some(2)
    /\ stream = BasicStream(SingletStreamable(Empty))

\* C10: for an element type with only one of operator< and operator>, min and
\* max evaluate only the operator the type provides, and return the least and
\* the greatest pulled element.
C10_SingleOperatorMinMax ==
    (last.op \in {"min", "max"} /\ ~(T.has_lth /\ T.has_gth)) =>
        /\ last.built
        /\ LET S == Yielded(last.pulled)
           IN  S # <<>> =>
                \E i \in 1..Len(S) :
                    /\ last.result = Some(S[i])
                    /\ last.op = "min" => \A j \in 1..Len(S) : Key(S[i]) <= Key(S[j])
                    /\ last.op = "max" => \A j \in 1..Len(S) : Key(S[i]) >= Key(S[j])

====
